---------------------------- MODULE Spec2Model ----------------------------
(***************************************************************************)
(* Model of tools/x_algorithm_analyzer.py: the score calculator            *)
(* (XAlgorithmScorer), the heuristic text analyzer (ContentAnalyzer) and   *)
(* the batch analyzer (BatchAnalyzer).                                     *)
(*                                                                         *)
(* Numbers.  The program computes with Python floats.  The model computes  *)
(* with exact rationals <<n, d>> (d > 0, lowest terms), so a sum or a      *)
(* product is the real-number value of the Python expression.  round(x, 4) *)
(* is modelled by RoundSet: the nearest multiple of 1/10000, and at an     *)
(* exact tie both neighbours, because there the float's representation     *)
(* error decides which way Python rounds.                                  *)
(***************************************************************************)
EXTENDS Integers, Sequences, FiniteSets, TLC

VARIABLES
    pc,           \* position of the running command
    probs,        \* EngagementProbabilities handed to / produced by a call
    modifiers,    \* ContentModifiers handed to / produced by a call
    calc,         \* locals of calculate_score at its return statement
    result,       \* the ScoreResult returned by calculate_score
    text,         \* the text given to analyze_text
    posts,        \* the posts given to analyze_posts
    is_same_author, \* the flag given to analyze_posts
    batch,        \* the dict returned by analyze_posts
    earlier       \* an earlier call on the same instances: what it was
                  \* given and what it returned (kept for comparison only)

vars ==
    <<pc, probs, modifiers, calc, result, text, posts, is_same_author, batch,
      earlier>>

---------------------------------------------------------------------------
(* Exact rational arithmetic *)

Abs(x) == IF x < 0 THEN -x ELSE x

RECURSIVE GCD(_, _)
GCD(a, b) == IF b = 0 THEN a ELSE GCD(b, a % b)

\* the rational n/d in lowest terms (d > 0)
Rat(n, d) == LET g == GCD(Abs(n), d) IN <<n \div g, d \div g>>

Zero == <<0, 1>>
One == <<1, 1>>

RAdd(x, y) ==
    LET g == GCD(x[2], y[2])
    IN Rat(x[1] * (y[2] \div g) + y[1] * (x[2] \div g), (x[2] \div g) * y[2])

RNeg(x) == <<-x[1], x[2]>>

RSub(x, y) == RAdd(x, RNeg(y))

RMul(x, y) ==
    IF x[1] = 0 \/ y[1] = 0 THEN Zero
    ELSE LET g1 == GCD(Abs(x[1]), y[2])
             g2 == GCD(Abs(y[1]), x[2])
         IN <<(x[1] \div g1) * (y[1] \div g2), (x[2] \div g2) * (y[2] \div g1)>>

\* a/b < c/d for a, c >= 0 and b, d > 0, by continued fractions: no product
\* is formed, so the comparison cannot overflow
RECURSIVE FracLt(_, _, _, _)
FracLt(a, b, c, d) ==
    IF a \div b # c \div d THEN a \div b < c \div d
    ELSE IF c % d = 0 THEN FALSE
    ELSE IF a % b = 0 THEN TRUE
    ELSE FracLt(d, c % d, b, a % b)

\* x < y
RLt(x, y) ==
    IF x[1] \div x[2] # y[1] \div y[2] THEN x[1] \div x[2] < y[1] \div y[2]
    ELSE FracLt(x[1] % x[2], x[2], y[1] % y[2], y[2])

RLe(x, y) == ~RLt(y, x)

RMax(x, y) == IF RLt(x, y) THEN y ELSE x

RMin(x, y) == IF RLt(y, x) THEN y ELSE x

RAbs(x) == <<Abs(x[1]), x[2]>>

\* 1/x for x # 0
RInv(x) == IF x[1] < 0 THEN <<-x[2], -x[1]>> ELSE <<x[2], x[1]>>

RECURSIVE RPow(_, _)
RPow(x, k) == IF k <= 0 THEN One ELSE RMul(x, RPow(x, k - 1))

\* <<(q * 10 + floor(10 * r / d)), (10 * r) % d>> for 0 <= r < d, adding r ten
\* times so that no intermediate value exceeds 2 * d
RECURSIVE NextDigit(_, _, _, _, _)
NextDigit(q, acc, r, d, i) ==
    IF i = 0 THEN <<q, acc>>
    ELSE IF acc >= d - r THEN NextDigit(q + 1, acc - (d - r), r, d, i - 1)
    ELSE NextDigit(q, acc + r, r, d, i - 1)

\* floor(x * 10^digits) and the remainder left, by long division
RECURSIVE ScaledFloor(_, _, _, _)
ScaledFloor(q, r, d, digits) ==
    IF digits = 0 THEN <<q, r>>
    ELSE LET n == NextDigit(q * 10, 0, r, d, 10)
         IN ScaledFloor(n[1], n[2], d, digits - 1)

RECURSIVE Pow10(_)
Pow10(k) == IF k = 0 THEN 1 ELSE 10 * Pow10(k - 1)

\* Python round(x, digits): the values it can return
RoundSet(x, digits) ==
    LET f == ScaledFloor(x[1] \div x[2], x[1] % x[2], x[2], digits)
        k == f[1]
        r == f[2]
        s == Pow10(digits)
    IN IF r < x[2] - r THEN {Rat(k, s)}
       ELSE IF r > x[2] - r THEN {Rat(k + 1, s)}
       ELSE {Rat(k, s), Rat(k + 1, s)}

---------------------------------------------------------------------------
(* class SignalWeight *)

\* a decimal literal with two places: Dec(115) is 1.15
Dec(hundredths) == Rat(hundredths, 100)

FAVORITE == Dec(100)
REPLY == Dec(80)
REPOST == Dec(75)
QUOTE == Dec(70)
FOLLOW_AUTHOR == Dec(120)
VIDEO_VIEW == Dec(90)
PROFILE_CLICK == Dec(50)
SHARE == Dec(40)
DM_SHARE == Dec(50)
LINK_COPY == Dec(45)
DWELL_TIME == Dec(30)
PHOTO_EXPAND == Dec(20)
CONTENT_CLICK == Dec(15)

NOT_INTERESTED == Dec(-60)
BLOCK == Dec(-150)
MUTE == Dec(-120)
REPORT == Dec(-200)

\* a faulty variant of VIDEO_BONUS: the bonus doubled
VIDEO_BONUS_double == Dec(230)

VIDEO_BONUS == Dec(115)
OON_PENALTY == Dec(70)

DIVERSITY_BASE == Dec(45)
DIVERSITY_FLOOR == Dec(10)

---------------------------------------------------------------------------
(* data classes *)

PositiveFields ==
    {"favorite", "reply", "repost", "quote", "follow_author", "video_view",
     "profile_click", "share", "dm_share", "link_copy", "dwell_time",
     "photo_expand", "content_click"}

NegativeFields == {"not_interested", "block", "mute", "report"}

ProbFields == PositiveFields \cup NegativeFields

\* EngagementProbabilities(): every field defaults to 0.0
EngagementProbabilities == [f \in ProbFields |-> Zero]

\* ContentModifiers(): the dataclass defaults
ContentModifiers ==
    [has_video |-> FALSE, is_out_of_network |-> FALSE, post_position |-> 1,
     post_age_hours |-> Zero, has_image |-> FALSE, has_link |-> FALSE,
     is_reply |-> FALSE, is_quote |-> FALSE]

---------------------------------------------------------------------------
(* class XAlgorithmScorer *)

\* a faulty variant of calculate_diversity_multiplier: min instead of max
calculate_diversity_multiplier_min(post_position) ==
    IF post_position <= 1 THEN One
    ELSE RMin(DIVERSITY_FLOOR, RPow(DIVERSITY_BASE, post_position - 1))

\* a faulty variant of calculate_diversity_multiplier: a base of 0.6
calculate_diversity_multiplier_slow(post_position) ==
    IF post_position <= 1 THEN One
    ELSE RMax(DIVERSITY_FLOOR, RPow(Rat(60, 100), post_position - 1))

calculate_diversity_multiplier(post_position) ==
    IF post_position <= 1 THEN One
    ELSE RMax(DIVERSITY_FLOOR, RPow(DIVERSITY_BASE, post_position - 1))

\* a faulty variant of calculate_age_multiplier: the linear decay is not floored
calculate_age_multiplier_no_floor(age_hours) ==
    IF RLe(age_hours, Zero) THEN One
    ELSE IF RLe(Rat(48, 1), age_hours) THEN Dec(10)
    ELSE RSub(One, RMul(age_hours, Rat(1, 48)))

calculate_age_multiplier(age_hours) ==
    IF RLe(age_hours, Zero) THEN One
    ELSE IF RLe(Rat(48, 1), age_hours) THEN Dec(10)
    ELSE RMax(Dec(10), RSub(One, RMul(age_hours, Rat(1, 48))))

\* a faulty variant of interpret_score: every band takes its upper boundary (<=)
interpret_score_inclusive(score, positive, negative) ==
    IF RLe(score, Dec(30)) THEN
        "LOW REACH: Content likely to be suppressed significantly"
    ELSE IF RLe(score, Dec(60)) THEN
        "MODERATE-LOW REACH: Content will struggle to gain traction"
    ELSE IF RLe(score, Dec(100)) THEN
        "MODERATE REACH: Content should reach some users"
    ELSE IF RLe(score, Dec(150)) THEN
        "GOOD REACH: Content is well-positioned in the algorithm"
    ELSE IF RLe(score, Dec(200)) THEN
        "EXCELLENT REACH: Content optimized for strong distribution"
    ELSE
        "VIRAL POTENTIAL: Content has maximum algorithmic support"

\* a faulty variant of interpret_score: the second boundary is 0.5 instead of 0.6
interpret_score_half(score, positive, negative) ==
    IF RLt(score, Dec(30)) THEN
        "LOW REACH: Content likely to be suppressed significantly"
    ELSE IF RLt(score, Dec(50)) THEN
        "MODERATE-LOW REACH: Content will struggle to gain traction"
    ELSE IF RLt(score, Dec(100)) THEN
        "MODERATE REACH: Content should reach some users"
    ELSE IF RLt(score, Dec(150)) THEN
        "GOOD REACH: Content is well-positioned in the algorithm"
    ELSE IF RLt(score, Dec(200)) THEN
        "EXCELLENT REACH: Content optimized for strong distribution"
    ELSE
        "VIRAL POTENTIAL: Content has maximum algorithmic support"

interpret_score(score, positive, negative) ==
    IF RLt(score, Dec(30)) THEN
        "LOW REACH: Content likely to be suppressed significantly"
    ELSE IF RLt(score, Dec(60)) THEN
        "MODERATE-LOW REACH: Content will struggle to gain traction"
    ELSE IF RLt(score, Dec(100)) THEN
        "MODERATE REACH: Content should reach some users"
    ELSE IF RLt(score, Dec(150)) THEN
        "GOOD REACH: Content is well-positioned in the algorithm"
    ELSE IF RLt(score, Dec(200)) THEN
        "EXCELLENT REACH: Content optimized for strong distribution"
    ELSE
        "VIRAL POTENTIAL: Content has maximum algorithmic support"

\* the recommendation messages, in the order the code appends them
RecNegative ==
    "WARNING: High negative signal probability. Review content for controversial elements."
RecRelevance ==
    "Consider making content more engaging or relevant to your audience."
RecSpacing(post_position) ==
    "You're on post #" \o ToString(post_position)
        \o " today. Consider spacing posts for better reach."
RecOON ==
    "Out-of-network content receives ~30% penalty. Build your follower base."
RecAging ==
    "Post is aging. Content has best reach within first 24 hours."
RecVideo ==
    "Consider adding native video for additional algorithmic boost."
RecLikes ==
    "Low predicted likes. Focus on creating more likeable content (primary metric)."
RecShare ==
    "Low shareability. Create content worth sharing privately."
RecOptimized ==
    "Content is well-optimized! Continue this approach."

\* recs.append(msg) under its condition
AppendIf(recs, cond, msg) == IF cond THEN Append(recs, msg) ELSE recs

\* a faulty variant of generate_recommendations: the last rule does not look at recs
generate_recommendations_always(p, m, score) ==
    LET r1 == AppendIf(<<>>,
                  \/ RLt(Dec(5), p.block)
                  \/ RLt(Dec(5), p.mute)
                  \/ RLt(Dec(2), p.report), RecNegative)
        r2 == AppendIf(r1, RLt(Dec(10), p.not_interested), RecRelevance)
        r3 == AppendIf(r2, m.post_position > 2, RecSpacing(m.post_position))
        r4 == AppendIf(r3, m.is_out_of_network, RecOON)
        r5 == AppendIf(r4, RLt(Rat(24, 1), m.post_age_hours), RecAging)
        r6 == AppendIf(r5, ~m.has_video /\ p.video_view = Zero, RecVideo)
        r7 == AppendIf(r6, RLt(p.favorite, Dec(30)), RecLikes)
        r8 == AppendIf(r7, RLt(p.share, Dec(5)) /\ RLt(p.dm_share, Dec(2)), RecShare)
    IN AppendIf(r8, RLt(Dec(150), score), RecOptimized)

generate_recommendations(p, m, score) ==
    LET r1 == AppendIf(<<>>,
                  \/ RLt(Dec(5), p.block)
                  \/ RLt(Dec(5), p.mute)
                  \/ RLt(Dec(2), p.report), RecNegative)
        r2 == AppendIf(r1, RLt(Dec(10), p.not_interested), RecRelevance)
        r3 == AppendIf(r2, m.post_position > 2, RecSpacing(m.post_position))
        r4 == AppendIf(r3, m.is_out_of_network, RecOON)
        r5 == AppendIf(r4, RLt(Rat(24, 1), m.post_age_hours), RecAging)
        r6 == AppendIf(r5, ~m.has_video /\ p.video_view = Zero, RecVideo)
        r7 == AppendIf(r6, RLt(p.favorite, Dec(30)), RecLikes)
        r8 == AppendIf(r7, RLt(p.share, Dec(5)) /\ RLt(p.dm_share, Dec(2)), RecShare)
    IN AppendIf(r8, RLt(Dec(150), score) /\ Len(r8) = 0, RecOptimized)

\* lines 191-205: the weighted sum of the 13 positive signals
positive_sum(p) ==
    LET t(a, x, w) == RAdd(a, RMul(x, w))
    IN t(t(t(t(t(t(t(t(t(t(t(t(t(Zero,
         p.favorite, FAVORITE),
         p.reply, REPLY),
         p.repost, REPOST),
         p.quote, QUOTE),
         p.follow_author, FOLLOW_AUTHOR),
         p.video_view, VIDEO_VIEW),
         p.profile_click, PROFILE_CLICK),
         p.share, SHARE),
         p.dm_share, DM_SHARE),
         p.link_copy, LINK_COPY),
         p.dwell_time, DWELL_TIME),
         p.photo_expand, PHOTO_EXPAND),
         p.content_click, CONTENT_CLICK)

\* lines 208-213: the weighted sum of the 4 negative signals
negative_sum(p) ==
    LET t(a, x, w) == RAdd(a, RMul(x, RAbs(w)))
    IN t(t(t(t(Zero,
         p.not_interested, NOT_INTERESTED),
         p.block, BLOCK),
         p.mute, MUTE),
         p.report, REPORT)

\* a faulty variant of video_bonus: the probability is not looked at
video_bonus_flag_only(p, m) == m.has_video

\* lines 216-219
video_bonus(p, m) == m.has_video /\ RLt(Zero, p.video_view)

\* a faulty variant of final_product: the out-of-network multiplier is left out
final_product_no_oon(raw_score, diversity_multiplier, oon_multiplier, age_multiplier) ==
    RMul(RMul(raw_score, diversity_multiplier), age_multiplier)

\* line 230
final_product(raw_score, diversity_multiplier, oon_multiplier, age_multiplier) ==
    RMul(RMul(RMul(raw_score, diversity_multiplier), oon_multiplier),
         age_multiplier)

\* calculate_score up to its return statement: the values of its locals
score_locals(p, m) ==
    LET video_bonus_applied == video_bonus(p, m)
        positive_score ==
            IF video_bonus_applied THEN RMul(positive_sum(p), VIDEO_BONUS)
            ELSE positive_sum(p)
        negative_score == negative_sum(p)
        raw_score == RSub(positive_score, negative_score)
        diversity_multiplier == calculate_diversity_multiplier(m.post_position)
        oon_multiplier == IF m.is_out_of_network THEN OON_PENALTY ELSE One
        age_multiplier == calculate_age_multiplier(m.post_age_hours)
        final_score ==
            final_product(raw_score, diversity_multiplier, oon_multiplier,
                          age_multiplier)
    IN [final_score |-> final_score,
        positive_score |-> positive_score,
        negative_score |-> negative_score,
        raw_score |-> raw_score,
        diversity_multiplier |-> diversity_multiplier,
        oon_multiplier |-> oon_multiplier,
        age_multiplier |-> age_multiplier,
        video_bonus_applied |-> video_bonus_applied,
        interpretation |->
            interpret_score(final_score, positive_score, negative_score),
        recommendations |-> generate_recommendations(p, m, final_score)]

\* lines 236-246: the ScoreResult objects the return statement can build
ScoreResults(c) ==
    {[final_score |-> fs,
      positive_score |-> ps,
      negative_score |-> ns,
      diversity_multiplier |-> dm,
      oon_multiplier |-> om,
      age_multiplier |-> am,
      video_bonus_applied |-> c.video_bonus_applied,
      interpretation |-> c.interpretation,
      recommendations |-> c.recommendations] :
        fs \in RoundSet(c.final_score, 4),
        ps \in RoundSet(c.positive_score, 4),
        ns \in RoundSet(c.negative_score, 4),
        dm \in RoundSet(c.diversity_multiplier, 4),
        om \in RoundSet(c.oon_multiplier, 4),
        am \in RoundSet(c.age_multiplier, 4)}

\* calc and result while no call has returned
NoCalc ==
    [final_score |-> Zero, positive_score |-> Zero, negative_score |-> Zero,
     raw_score |-> Zero, diversity_multiplier |-> Zero, oon_multiplier |-> Zero,
     age_multiplier |-> Zero, video_bonus_applied |-> FALSE,
     interpretation |-> "", recommendations |-> <<>>]

NoResult ==
    [final_score |-> Zero, positive_score |-> Zero, negative_score |-> Zero,
     diversity_multiplier |-> Zero, oon_multiplier |-> Zero,
     age_multiplier |-> Zero, video_bonus_applied |-> FALSE,
     interpretation |-> "", recommendations |-> <<>>]

NoText == [contains |-> {}, word_count |-> 0, length |-> 0, starts_with_at |-> FALSE]

NoBatch ==
    [post_count |-> 0, average_score |-> Zero, best_score |-> Zero,
     worst_score |-> Zero, results |-> <<>>, recommendation |-> ""]

\* no call has been kept
NoCall == [pc |-> "none"]

---------------------------------------------------------------------------
(* class ContentAnalyzer *)

(* A text is represented by what analyze_text reads of it: the set of     *)
(* pattern and marker strings that occur in text.lower(), the number of   *)
(* whitespace-separated words, the number of characters and whether the   *)
(* first character is "@".  re.search(p, text_lower) and (x in text_lower)*)
(* are membership in that set; the regex patterns r'\?', r'thoughts\?'    *)
(* and r'agree\?' are written as the literal strings they match, and the  *)
(* emoji markers by their code points.                                     *)

QUESTION_PATTERNS == <<"?", "what do you think", "thoughts?", "agree?">>
CALL_TO_ACTION == <<"retweet", "rt if", "share", "like if", "follow">>
CONTROVERSY_MARKERS == <<"hot take", "unpopular opinion", "controversial">>
POSITIVE_SENTIMENT == <<"amazing", "incredible", "love", "best", "great">>
NEGATIVE_TRIGGERS == <<"hate", "worst", "terrible", "fight me", "argue">>

LinkMarkers == <<"http", "pic.", "video", "U+1F4F9", "U+1F3A5">>
ImageMarkers == <<"U+1F4F7", "U+1F5BC U+FE0F", "photo", "image">>
VideoMarkers == <<"video", "U+1F4F9", "U+1F3A5", "watch">>

\* re.search(pattern, text_lower) / (x in text_lower)
Search(pattern, t) == pattern \in t.contains

\* for pattern in patterns: if re.search(...): ...; break
AnyMatch(patterns, t) == \E i \in 1..Len(patterns) : Search(patterns[i], t)

\* a faulty variant of CountMatches: whether any pattern matches, as 0 or 1
CountMatches_any(patterns, t) == IF AnyMatch(patterns, t) THEN 1 ELSE 0

\* sum(1 for p in patterns if re.search(p, text_lower))
CountMatches(patterns, t) ==
    Cardinality({i \in 1..Len(patterns) : Search(patterns[i], t)})

\* a faulty variant of Clamp: "normalize" taken as a conversion to percent
Clamp_percent(current) == RMul(current, Rat(100, 1))

\* lines 421-427: max(0.0, min(1.0, current))
Clamp(current) == RMax(Zero, RMin(One, current))

\* lines 353-419: the probabilities before normalisation
estimate_probs(t) ==
    LET positive_count == CountMatches(POSITIVE_SENTIMENT, t)
        negative_count == CountMatches(NEGATIVE_TRIGGERS, t)
        question == AnyMatch(QUESTION_PATTERNS, t)
        cta == AnyMatch(CALL_TO_ACTION, t)
        controversy == AnyMatch(CONTROVERSY_MARKERS, t)
        Plus(x, cond, delta) == IF cond THEN RAdd(x, delta) ELSE x
    IN [EngagementProbabilities EXCEPT
        !.favorite = RAdd(Dec(30), RMin(Dec(20), RMul(Rat(positive_count, 1), Dec(5)))),
        !.reply = Plus(Plus(Dec(15), question, Dec(15)), controversy, Dec(10)),
        !.repost = Plus(Dec(8), cta, Dec(10)),
        !.quote = Plus(Dec(4), controversy, Dec(8)),
        !.profile_click = Dec(12),
        !.share = Plus(Dec(5), cta, Dec(5)),
        !.dm_share = Dec(2),
        !.dwell_time =
            IF t.word_count > 50 THEN RAdd(Dec(25), Dec(15))
            ELSE IF t.word_count < 10 THEN RSub(Dec(25), Dec(10))
            ELSE Dec(25),
        !.not_interested =
            Plus(Plus(Zero, controversy, Dec(5)), negative_count > 0,
                 RMin(Dec(15), RMul(Rat(negative_count, 1), Dec(5)))),
        !.mute =
            Plus(Plus(Zero, controversy, Dec(2)), negative_count > 0,
                 RMin(Dec(8), RMul(Rat(negative_count, 1), Dec(3)))),
        !.block =
            Plus(Zero, negative_count > 0,
                 RMin(Dec(5), RMul(Rat(negative_count, 1), Dec(2)))),
        !.photo_expand = IF AnyMatch(ImageMarkers, t) THEN Dec(15) ELSE Zero,
        !.video_view = IF AnyMatch(VideoMarkers, t) THEN Dec(35) ELSE Zero]

\* lines 354, 399-419: the modifiers analyze_text returns
estimate_modifiers(t) ==
    [ContentModifiers EXCEPT
        !.has_link = AnyMatch(LinkMarkers, t),
        !.has_image = AnyMatch(ImageMarkers, t),
        !.has_video = AnyMatch(VideoMarkers, t),
        !.is_reply = t.starts_with_at]

\* analyze_text(text): <<probs, modifiers>>
analyze_text(t) ==
    LET raw == estimate_probs(t)
    IN <<[f \in ProbFields |-> Clamp(raw[f])], estimate_modifiers(t)>>

---------------------------------------------------------------------------
(* class BatchAnalyzer *)

\* post[:50] + "..." if len(post) > 50 else post: the characters kept and
\* whether the ellipsis is appended
text_preview(t) ==
    IF t.length > 50 THEN [chars |-> 50, ellipsis |-> TRUE]
    ELSE [chars |-> t.length, ellipsis |-> FALSE]

\* a faulty variant of PostEntries: the 0-based index is the position
PostEntries_zero_based(ps, same_author, i) ==
    LET a == analyze_text(ps[i])
        m == IF same_author THEN [a[2] EXCEPT !.post_position = i - 1] ELSE a[2]
    IN {[post_number |-> i,
         text_preview |-> text_preview(ps[i]),
         score |-> r.final_score,
         diversity_penalty |-> r.diversity_multiplier,
         interpretation |-> r.interpretation] :
            r \in ScoreResults(score_locals(a[1], m))}

\* lines 453-466: the entries the loop body can append for post i (1-based)
PostEntries(ps, same_author, i) ==
    LET a == analyze_text(ps[i])
        m == IF same_author THEN [a[2] EXCEPT !.post_position = i] ELSE a[2]
    IN {[post_number |-> i,
         text_preview |-> text_preview(ps[i]),
         score |-> r.final_score,
         diversity_penalty |-> r.diversity_multiplier,
         interpretation |-> r.interpretation] :
            r \in ScoreResults(score_locals(a[1], m))}

\* lines 450-466: the results lists the loop can build over the first n posts
RECURSIVE ResultLists(_, _, _)
ResultLists(ps, same_author, n) ==
    IF n = 0 THEN {<<>>}
    ELSE {Append(rs, e) :
            rs \in ResultLists(ps, same_author, n - 1),
            e \in PostEntries(ps, same_author, n)}

\* sum(scores), max(scores), min(scores) over the first n results
RECURSIVE SumScores(_, _)
SumScores(results, n) ==
    IF n = 0 THEN Zero ELSE RAdd(SumScores(results, n - 1), results[n].score)

RECURSIVE MaxScore(_, _)
MaxScore(results, n) ==
    IF n = 1 THEN results[1].score
    ELSE RMax(MaxScore(results, n - 1), results[n].score)

RECURSIVE MinScore(_, _)
MinScore(results, n) ==
    IF n = 1 THEN results[1].score
    ELSE RMin(MinScore(results, n - 1), results[n].score)

\* a faulty variant of Mean: the divisor is one too large
Mean_off_by_one(results) ==
    RMul(SumScores(results, Len(results)), Rat(1, Len(results) + 1))

\* sum(...) / len(...)
Mean(results) == RMul(SumScores(results, Len(results)), Rat(1, Len(results)))

RecNoPosts == "No posts to analyze."
RecSameAuthor(n) ==
    "Warning: " \o ToString(n) \o " posts from same author. "
        \o "Posts 4+ receive <20% of normal score. "
        \o "Consider spacing posts throughout the day."
RecLowBatch == "Overall low engagement predicted. Review content strategy."
RecModerateBatch == "Moderate engagement expected. Focus on increasing likeability."
RecGoodBatch == "Good engagement potential across posts."

\* a faulty variant of batch_recommendation: the warning starts at three posts
batch_recommendation_three(results, same_author) ==
    IF Len(results) = 0 THEN RecNoPosts
    ELSE IF same_author /\ Len(results) >= 3 THEN RecSameAuthor(Len(results))
    ELSE IF RLt(Mean(results), Dec(50)) THEN RecLowBatch
    ELSE IF RLt(Mean(results), Dec(100)) THEN RecModerateBatch
    ELSE RecGoodBatch

batch_recommendation(results, same_author) ==
    IF Len(results) = 0 THEN RecNoPosts
    ELSE IF same_author /\ Len(results) > 3 THEN RecSameAuthor(Len(results))
    ELSE IF RLt(Mean(results), Dec(50)) THEN RecLowBatch
    ELSE IF RLt(Mean(results), Dec(100)) THEN RecModerateBatch
    ELSE RecGoodBatch

\* lines 468-478: the dicts the return statement can build from the results
BatchDicts(ps, results, same_author) ==
    LET n == Len(results)
    IN {[post_count |-> Len(ps),
         average_score |-> avg,
         best_score |-> best,
         worst_score |-> worst,
         results |-> results,
         recommendation |-> batch_recommendation(results, same_author)] :
            avg \in IF n > 0 THEN RoundSet(Mean(results), 4) ELSE {Zero},
            best \in IF n > 0 THEN RoundSet(MaxScore(results, n), 4) ELSE {Zero},
            worst \in IF n > 0 THEN RoundSet(MinScore(results, n), 4) ELSE {Zero}}

\* analyze_posts(posts, is_same_author): the dicts it can return
analyze_posts(ps, same_author) ==
    UNION {BatchDicts(ps, rs, same_author) :
            rs \in ResultLists(ps, same_author, Len(ps))}

---------------------------------------------------------------------------
(* the score command: calculate_score on probabilities and modifiers given *)
(* by the caller                                                           *)

\* the largest post_position given to calculate_score
MaxPos == 4

\* the defaults of the score command's flags
CliDefaults ==
    [EngagementProbabilities EXCEPT
        !.favorite = Dec(30), !.reply = Dec(15), !.repost = Dec(8),
        !.quote = Dec(4), !.follow_author = Dec(2), !.profile_click = Dec(12),
        !.share = Dec(5), !.dm_share = Dec(2), !.dwell_time = Dec(25),
        !.not_interested = Dec(2), !.block = Dec(1), !.mute = Dec(1)]

\* every positive signal certain, no negative signal
AllPositive == [f \in ProbFields |-> IF f \in PositiveFields THEN One ELSE Zero]

\* a reply and a follow certain, nothing else: the score is exactly 2.0
ReplyAndFollow ==
    [EngagementProbabilities EXCEPT !.reply = One, !.follow_author = One]

\* likes, a certain follow and a private share: with a video (never viewed)
\* at age 11 the score is 1.946 * 37/48 = 1.50004..., just above 1.5
NearOptimized ==
    [EngagementProbabilities EXCEPT
        !.favorite = Rat(736, 1000), !.follow_author = One, !.dm_share = Dec(2)]

\* the probability values tried for one field: the thresholds of the
\* recommendation rules, their neighbours, and the ends of [0, 1]
ProbVals ==
    {Dec(0), Dec(2), Dec(5), Dec(6), Dec(10), Dec(11), Dec(30), Dec(100)}

\* probabilities in [0,1]: the dataclass defaults or the command's defaults
\* with at most one field replaced, and three vectors with several signals
ProbInputs ==
    {[b EXCEPT ![f] = v] :
        b \in {EngagementProbabilities, CliDefaults},
        f \in ProbFields, v \in ProbVals}
    \cup {AllPositive, ReplyAndFollow, NearOptimized}

AgeInputs == {Rat(0, 1), Rat(11, 1), Rat(12, 1), Rat(25, 1), Rat(48, 1)}

ModInputs ==
    {[ContentModifiers EXCEPT
        !.has_video = hv, !.is_out_of_network = oon,
        !.post_position = pos, !.post_age_hours = age] :
        hv \in BOOLEAN, oon \in BOOLEAN, pos \in 1..MaxPos, age \in AgeInputs}

Init ==
    /\ pc = "score"
    /\ probs \in ProbInputs
    /\ modifiers \in ModInputs
    /\ calc = NoCalc
    /\ result = NoResult
    /\ text = NoText
    /\ posts = <<>>
    /\ is_same_author = TRUE
    /\ batch = NoBatch
    /\ earlier = NoCall

\* a faulty variant of CalculateScore: the scorer counts the call in the
\* modifiers it was given
CalculateScore_counting ==
    /\ pc = "score"
    /\ LET c == score_locals(probs, modifiers)
       IN /\ calc' = c
          /\ result' \in ScoreResults(c)
    /\ modifiers' = [modifiers EXCEPT !.post_position = @ + 1]
    /\ pc' = "done"
    /\ UNCHANGED <<probs, text, posts, is_same_author, batch, earlier>>

\* result = scorer.calculate_score(probs, modifiers)
CalculateScore ==
    /\ pc = "score"
    /\ LET c == score_locals(probs, modifiers)
       IN /\ calc' = c
          /\ result' \in ScoreResults(c)
    /\ pc' = "done"
    /\ UNCHANGED <<probs, modifiers, text, posts, is_same_author, batch, earlier>>

Next == CalculateScore

Spec == Init /\ [][Next]_vars

---------------------------------------------------------------------------
(* the analyze command: analyze_text on a text, the command's overrides,   *)
(* then calculate_score                                                    *)

\* the first k patterns of a list, as a set
FirstK(patterns, k) == {patterns[i] : i \in 1..k}

\* word count and character count of the texts tried
TextSizes == {<<9, 150>>, <<10, 150>>, <<51, 300>>}

\* the text "hot take: this is terrible, fight me": 7 words, 36 characters,
\* one controversy marker and two negative triggers
HotTake ==
    [contains |-> {"hot take", "terrible", "fight me"},
     word_count |-> 7, length |-> 36, starts_with_at |-> FALSE]

TextInputs ==
    {HotTake} \cup
    {[contains |-> q \cup c \cup p \cup k \cup n \cup m,
      word_count |-> sz[1], length |-> sz[2], starts_with_at |-> at] :
        q \in {{}, {"?"}, {"what do you think"}},
        c \in {{}, {"share"}},
        p \in {FirstK(POSITIVE_SENTIMENT, j) : j \in {0, 1, 4, 5}},
        k \in {{}, {"unpopular opinion"}},
        n \in {FirstK(NEGATIVE_TRIGGERS, j) : j \in {0, 1, 3, 5}},
        m \in {{}, {"http"}, {"photo"}, {"watch"}, {"video", "image"}},
        sz \in TextSizes,
        at \in BOOLEAN}

\* the --post-position, --age and --oon arguments tried
OverrideInputs ==
    {<<1, Rat(0, 1), FALSE>>, <<2, Rat(25, 1), TRUE>>, <<4, Rat(48, 1), FALSE>>}

InitAnalyze ==
    /\ pc = "analyze"
    /\ text \in TextInputs
    /\ probs = EngagementProbabilities
    /\ modifiers = ContentModifiers
    /\ calc = NoCalc
    /\ result = NoResult
    /\ posts = <<>>
    /\ is_same_author = TRUE
    /\ batch = NoBatch
    /\ earlier = NoCall

\* probs, modifiers = analyzer.analyze_text(args.text)
AnalyzeText ==
    /\ pc = "analyze"
    /\ probs' = analyze_text(text)[1]
    /\ modifiers' = analyze_text(text)[2]
    /\ pc' = "overrides"
    /\ UNCHANGED <<calc, result, text, posts, is_same_author, batch, earlier>>

\* cmd_analyze: "Apply any CLI overrides"
ApplyOverrides ==
    /\ pc = "overrides"
    /\ \E o \in OverrideInputs :
        modifiers' = [modifiers EXCEPT !.post_position = o[1],
                                       !.post_age_hours = o[2],
                                       !.is_out_of_network = o[3]]
    /\ pc' = "score"
    /\ UNCHANGED <<probs, calc, result, text, posts, is_same_author, batch, earlier>>

NextAnalyze == AnalyzeText \/ ApplyOverrides \/ CalculateScore

SpecAnalyze == InitAnalyze /\ [][NextAnalyze]_vars

---------------------------------------------------------------------------
(* the batch command: analyze_posts on a list of posts *)

\* the longest list of posts given to analyze_posts
MaxPosts == 4

\* the posts a batch is made of: a short plain post, a post with three
\* negative triggers, a long post with a question, a call to action, four
\* positive words, a video and an image, and a post with a video only
BatchTexts ==
    {[contains |-> {}, word_count |-> 5, length |-> 30, starts_with_at |-> FALSE],
     [contains |-> FirstK(NEGATIVE_TRIGGERS, 3), word_count |-> 12,
      length |-> 50, starts_with_at |-> FALSE],
     [contains |-> {"?", "share", "video", "image"} \cup FirstK(POSITIVE_SENTIMENT, 4),
      word_count |-> 51, length |-> 300, starts_with_at |-> FALSE],
     [contains |-> {"watch"}, word_count |-> 10, length |-> 51,
      starts_with_at |-> TRUE]}

RECURSIVE PostLists(_)
PostLists(n) ==
    IF n = 0 THEN {<<>>}
    ELSE PostLists(n - 1)
         \cup {Append(ps, t) : ps \in {l \in PostLists(n - 1) : Len(l) = n - 1},
                               t \in BatchTexts}

InitBatch ==
    /\ pc = "batch"
    /\ posts \in PostLists(MaxPosts)
    /\ is_same_author \in BOOLEAN
    /\ text = NoText
    /\ probs = EngagementProbabilities
    /\ modifiers = ContentModifiers
    /\ calc = NoCalc
    /\ result = NoResult
    /\ batch = NoBatch
    /\ earlier = NoCall

\* results = analyzer.analyze_posts(posts, is_same_author)
AnalyzePosts ==
    /\ pc = "batch"
    /\ batch' \in analyze_posts(posts, is_same_author)
    /\ pc' = "done"
    /\ UNCHANGED <<probs, modifiers, calc, result, text, posts, is_same_author, earlier>>

NextBatch == AnalyzePosts

SpecBatch == InitBatch /\ [][NextBatch]_vars

---------------------------------------------------------------------------
(* a post scored again and again while the author posts more and the post *)
(* grows older: calculate_score with a growing post_position and age      *)

\* how many positions below 1 the series starts at
BelowOne == 2

\* the largest post_position of the series
MaxSeriesPos == 6

\* the largest age of the series, in hours
MaxAge == 100

\* the hours between two ages of the series
AgeStep == Rat(4, 1)

InitSeries ==
    /\ pc = "score"
    /\ probs \in {CliDefaults, AllPositive}
    /\ modifiers = [ContentModifiers EXCEPT !.post_position = 1 - BelowOne,
                                            !.post_age_hours = RNeg(AgeStep)]
    /\ calc = NoCalc
    /\ result = NoResult
    /\ text = NoText
    /\ posts = <<>>
    /\ is_same_author = TRUE
    /\ batch = NoBatch
    /\ earlier = NoCall

\* the caller raises --post-position by one
PostAgain ==
    /\ modifiers.post_position < MaxSeriesPos
    /\ modifiers' = [modifiers EXCEPT !.post_position = @ + 1]
    /\ pc' = "score"
    /\ UNCHANGED <<probs, calc, result, text, posts, is_same_author, batch, earlier>>

\* the caller raises --age
GrowOlder ==
    /\ RLe(RAdd(modifiers.post_age_hours, AgeStep), Rat(MaxAge, 1))
    /\ modifiers' = [modifiers EXCEPT !.post_age_hours = RAdd(@, AgeStep)]
    /\ pc' = "score"
    /\ UNCHANGED <<probs, calc, result, text, posts, is_same_author, batch, earlier>>

NextSeries == CalculateScore \/ PostAgain \/ GrowOlder

SpecSeries == InitSeries /\ [][NextSeries]_vars

---------------------------------------------------------------------------
(* a session: calls of calculate_score, analyze_text and analyze_posts, one *)
(* after another in any order, on one scorer, one analyzer and one batch    *)
(* analyzer.  The instances hold nothing a call assigns (self.weights,     *)
(* self.scorer and self.content_analyzer are assigned in __init__ only),    *)
(* so the state of the session is what the caller holds: the arguments of   *)
(* the last calls and what they returned.                                   *)

\* a reply with a video
WatchReply ==
    [contains |-> {"watch"}, word_count |-> 10, length |-> 51,
     starts_with_at |-> TRUE]

\* the arguments of the session's calls.  They are taken where no field of
\* the result is at an exact tie of round(x, 4): there the model leaves the
\* direction of the rounding open, while a float rounds one way
SessionScoreInputs ==
    {a \in {NearOptimized}
            \X {ContentModifiers,
                [ContentModifiers EXCEPT !.has_video = TRUE,
                                         !.post_position = 3,
                                         !.post_age_hours = Rat(11, 1)]} :
        Cardinality(ScoreResults(score_locals(a[1], a[2]))) = 1}

SessionTexts == {HotTake, WatchReply}

SessionBatchInputs ==
    {a \in {<<>>, <<HotTake, WatchReply>>, <<WatchReply, HotTake>>}
            \X BOOLEAN :
        Cardinality(analyze_posts(a[1], a[2])) = 1}

InitSession ==
    /\ pc = "idle"
    /\ probs = EngagementProbabilities
    /\ modifiers = ContentModifiers
    /\ calc = NoCalc
    /\ result = NoResult
    /\ text = NoText
    /\ posts = <<>>
    /\ is_same_author = TRUE
    /\ batch = NoBatch
    /\ earlier = NoCall

\* the caller builds probabilities and modifiers for calculate_score
StartScore ==
    /\ pc \in {"idle", "done"}
    /\ \E a \in SessionScoreInputs : probs' = a[1] /\ modifiers' = a[2]
    /\ calc' = NoCalc
    /\ result' = NoResult
    /\ pc' = "score"
    /\ UNCHANGED <<text, posts, is_same_author, batch, earlier>>

\* the caller takes a text for analyze_text
StartAnalyze ==
    /\ pc \in {"idle", "done"}
    /\ text' \in SessionTexts
    /\ calc' = NoCalc
    /\ result' = NoResult
    /\ pc' = "analyze"
    /\ UNCHANGED <<probs, modifiers, posts, is_same_author, batch, earlier>>

\* the caller takes posts for analyze_posts
StartBatch ==
    /\ pc \in {"idle", "done"}
    /\ \E a \in SessionBatchInputs : posts' = a[1] /\ is_same_author' = a[2]
    /\ batch' = NoBatch
    /\ pc' = "batch"
    /\ UNCHANGED <<probs, modifiers, calc, result, text, earlier>>

\* what the caller holds after one call of the session, whichever, is kept
\* for the comparison with the calls after it
Remember ==
    /\ pc \in {"overrides", "done"}
    /\ earlier = NoCall
    /\ earlier' = [pc |-> pc, probs |-> probs, modifiers |-> modifiers,
                   result |-> result, text |-> text, posts |-> posts,
                   is_same_author |-> is_same_author, batch |-> batch]
    /\ UNCHANGED <<pc, probs, modifiers, calc, result, text, posts,
                   is_same_author, batch>>

NextSession ==
    \/ StartScore
    \/ StartAnalyze
    \/ StartBatch
    \/ AnalyzeText
    \/ ApplyOverrides
    \/ CalculateScore
    \/ AnalyzePosts
    \/ Remember

SpecSession == InitSession /\ [][NextSession]_vars

---------------------------------------------------------------------------
(* Properties *)

\* r is a multiple of 1/10000 at most 1/20000 away from x
IsRounding(r, x) ==
    /\ 10000 % r[2] = 0
    /\ RLe(RSub(r, Rat(1, 20000)), x)
    /\ RLe(x, RAdd(r, Rat(1, 20000)))

NumericFields ==
    {"final_score", "positive_score", "negative_score", "diversity_multiplier",
     "oon_multiplier", "age_multiplier"}

(* C1 as stated: the returned fields satisfy                               *)
(* final_score = (positive_score - negative_score) * diversity_multiplier  *)
(* * oon_multiplier * age_multiplier.  Both sides are divided by the age   *)
(* multiplier, which is never 0.                                           *)
C1_ReturnedFieldsIdentity ==
    pc = "done" =>
        RMul(result.final_score, RInv(result.age_multiplier))
            = RMul(RMul(RSub(result.positive_score, result.negative_score),
                        result.diversity_multiplier),
                   result.oon_multiplier)

(* C1 amended: the identity holds of the values calculate_score computes   *)
(* before rounding, and every returned numeric field is the rounding to 4  *)
(* decimal places of the value it was computed as.                         *)
C1_IdentityBeforeRounding ==
    pc = "done" =>
        /\ calc.final_score
             = RMul(RMul(RMul(RSub(calc.positive_score, calc.negative_score),
                              calc.diversity_multiplier),
                         calc.oon_multiplier),
                    calc.age_multiplier)
        /\ \A f \in NumericFields : IsRounding(result[f], calc[f])

\* C1 witness: a call with every multiplier in play whose final score was rounded
C1_Witness ==
    /\ pc = "done"
    /\ calc.video_bonus_applied
    /\ modifiers.is_out_of_network
    /\ modifiers.post_position = 2
    /\ modifiers.post_age_hours = Rat(25, 1)
    /\ result.final_score # calc.final_score
    /\ RLt(Zero, calc.negative_score)

\* the band of a score under the boundaries {0.3, 0.6, 1.0, 1.5, 2.0},
\* left-inclusive and right-exclusive
Boundaries == <<Dec(30), Dec(60), Dec(100), Dec(150), Dec(200)>>
BandNames ==
    <<"LOW REACH: Content likely to be suppressed significantly",
      "MODERATE-LOW REACH: Content will struggle to gain traction",
      "MODERATE REACH: Content should reach some users",
      "GOOD REACH: Content is well-positioned in the algorithm",
      "EXCELLENT REACH: Content optimized for strong distribution",
      "VIRAL POTENTIAL: Content has maximum algorithmic support">>
Band(score) ==
    BandNames[1 + Cardinality({i \in 1..Len(Boundaries) : RLe(Boundaries[i], score)})]

(* C2 as stated: the interpretation of a returned ScoreResult is the band  *)
(* of its final_score field.                                               *)
C2_BandOfReturnedScore ==
    pc = "done" => result.interpretation = Band(result.final_score)

(* C2 amended: the interpretation is the band of the final score before    *)
(* rounding; it differs from the band of the returned final_score only     *)
(* when that field is a boundary the unrounded score lies below.           *)
C2_BandOfUnroundedScore ==
    pc = "done" =>
        /\ result.interpretation = Band(calc.final_score)
        /\ result.interpretation # Band(result.final_score) =>
              /\ \E i \in 1..Len(Boundaries) : result.final_score = Boundaries[i]
              /\ RLt(calc.final_score, result.final_score)

\* C2 witness: a score of exactly 2.0 is VIRAL POTENTIAL
C2_Witness ==
    /\ pc = "done"
    /\ calc.final_score = Dec(200)
    /\ result.final_score = Dec(200)
    /\ result.interpretation = BandNames[6]

\* the inputs of the example: favorite = 1.0 alone, default modifiers
OnlyFavorite == [EngagementProbabilities EXCEPT !.favorite = One]

(* C3 as stated: favorite = 1.0 alone at position 1, age 0, in network,    *)
(* no video gives positive_score 1.0, final_score 1.0 and MODERATE REACH.  *)
C3_ModerateReach ==
    (pc = "done" /\ probs = OnlyFavorite /\ modifiers = ContentModifiers) =>
        /\ result.positive_score = One
        /\ result.final_score = One
        /\ result.interpretation = BandNames[3]

(* C3 amended: the same call gives positive_score 1.0, final_score 1.0 and *)
(* GOOD REACH, the band [1.0, 1.5).                                        *)
C3_GoodReach ==
    (pc = "done" /\ probs = OnlyFavorite /\ modifiers = ContentModifiers) =>
        /\ result.positive_score = One
        /\ result.final_score = One
        /\ result.interpretation = BandNames[4]

\* C3 witness: the call of the example has returned
C3_Witness ==
    /\ pc = "done"
    /\ probs = OnlyFavorite
    /\ modifiers = ContentModifiers
    /\ result.final_score = One

(* C4: the diversity multiplier of every call lies in [0.10, 1.0] and is   *)
(* exactly 1.0 for a post_position <= 1; and as the position only grows    *)
(* from call to call, the multiplier of a call is never above that of the  *)
(* call before it.                                                         *)
C4_Range ==
    pc = "done" =>
        /\ RLe(Dec(10), calc.diversity_multiplier)
        /\ RLe(calc.diversity_multiplier, One)
        /\ modifiers.post_position <= 1 => calc.diversity_multiplier = One
        /\ result.diversity_multiplier = calc.diversity_multiplier

C4_Step ==
    /\ modifiers'.post_position >= modifiers.post_position
    /\ (pc' = "done" /\ calc # NoCalc) =>
          RLe(calc'.diversity_multiplier, calc.diversity_multiplier)

C4_Diversity == [](C4_Range) /\ [][C4_Step]_vars

\* C4 witness: a call at a position below 1 was followed by calls up to a
\* position where the floor holds
C4_Witness ==
    /\ pc = "done"
    /\ modifiers.post_position = MaxSeriesPos
    /\ calc.diversity_multiplier = Dec(10)

\* the piecewise reference of the age multiplier
AgeReference(age) ==
    IF RLe(age, Zero) THEN One
    ELSE IF RLe(Rat(48, 1), age) THEN Rat(1, 10)
    ELSE RMax(Rat(1, 10), RSub(One, RMul(age, Rat(1, 48))))

(* C5: the age multiplier of every call equals the piecewise reference     *)
(* (1.0 at 0, 0.5 at 24, 0.1 at 48 and at 100), lies in [0.1, 1.0], and,   *)
(* as the age only grows from call to call, is never above that of the     *)
(* call before it.                                                         *)
C5_Value ==
    pc = "done" =>
        /\ calc.age_multiplier = AgeReference(modifiers.post_age_hours)
        /\ modifiers.post_age_hours = Rat(0, 1) => calc.age_multiplier = One
        /\ modifiers.post_age_hours = Rat(24, 1) => calc.age_multiplier = Rat(1, 2)
        /\ modifiers.post_age_hours = Rat(48, 1) => calc.age_multiplier = Rat(1, 10)
        /\ modifiers.post_age_hours = Rat(100, 1) => calc.age_multiplier = Rat(1, 10)
        /\ RLe(Rat(1, 10), calc.age_multiplier)
        /\ RLe(calc.age_multiplier, One)

C5_Step ==
    /\ RLe(modifiers.post_age_hours, modifiers'.post_age_hours)
    /\ (pc' = "done" /\ calc # NoCalc) =>
          RLe(calc'.age_multiplier, calc.age_multiplier)

C5_Age == [](C5_Value) /\ [][C5_Step]_vars

\* C5 witness: a call at 44 hours, where the linear decay is below the floor
C5_Witness ==
    /\ pc = "done"
    /\ modifiers.post_age_hours = Rat(44, 1)
    /\ calc.age_multiplier = Rat(1, 10)

\* the weight of each positive signal, and their weighted sum
PositiveWeight ==
    [f \in PositiveFields |->
        CASE f = "favorite" -> FAVORITE
          [] f = "reply" -> REPLY
          [] f = "repost" -> REPOST
          [] f = "quote" -> QUOTE
          [] f = "follow_author" -> FOLLOW_AUTHOR
          [] f = "video_view" -> VIDEO_VIEW
          [] f = "profile_click" -> PROFILE_CLICK
          [] f = "share" -> SHARE
          [] f = "dm_share" -> DM_SHARE
          [] f = "link_copy" -> LINK_COPY
          [] f = "dwell_time" -> DWELL_TIME
          [] f = "photo_expand" -> PHOTO_EXPAND
          [] f = "content_click" -> CONTENT_CLICK]

RECURSIVE WeightedSum(_, _)
WeightedSum(p, fields) ==
    IF fields = {} THEN Zero
    ELSE LET f == CHOOSE g \in fields : TRUE
         IN RAdd(RMul(p[f], PositiveWeight[f]), WeightedSum(p, fields \ {f}))

(* C6: video_bonus_applied is true iff has_video is true and video_view >  *)
(* 0; the positive score calculate_score computes is then the weighted sum *)
(* of the 13 positive signals times 1.15, and otherwise exactly that sum.  *)
C6_VideoBonus ==
    pc = "done" =>
        /\ result.video_bonus_applied
             <=> (modifiers.has_video /\ RLt(Zero, probs.video_view))
        /\ calc.positive_score
             = IF result.video_bonus_applied
               THEN RMul(WeightedSum(probs, PositiveFields), Rat(115, 100))
               ELSE WeightedSum(probs, PositiveFields)
        /\ IsRounding(result.positive_score, calc.positive_score)

\* C6 witness: the video flag is set, video_view is 0, and the bonus is skipped
C6_Witness ==
    /\ pc = "done"
    /\ modifiers.has_video
    /\ probs.video_view = Zero
    /\ ~result.video_bonus_applied
    /\ calc.positive_score = WeightedSum(probs, PositiveFields)
    /\ RLt(Zero, calc.positive_score)

---------------------------------------------------------------------------
(* the recommendations of calculate_score *)

\* the eight rules in their order: the condition on the probabilities and
\* modifiers of the call, and the message
Rules ==
    << [cond |-> \/ RLt(Dec(5), probs.block)
                 \/ RLt(Dec(5), probs.mute)
                 \/ RLt(Dec(2), probs.report),
        msg |-> RecNegative],
       [cond |-> RLt(Dec(10), probs.not_interested), msg |-> RecRelevance],
       [cond |-> modifiers.post_position > 2,
        msg |-> RecSpacing(modifiers.post_position)],
       [cond |-> modifiers.is_out_of_network, msg |-> RecOON],
       [cond |-> RLt(Rat(24, 1), modifiers.post_age_hours), msg |-> RecAging],
       [cond |-> ~modifiers.has_video /\ probs.video_view = Zero,
        msg |-> RecVideo],
       [cond |-> RLt(probs.favorite, Dec(30)), msg |-> RecLikes],
       [cond |-> RLt(probs.share, Dec(5)) /\ RLt(probs.dm_share, Dec(2)),
        msg |-> RecShare] >>

\* the positions at which a message occurs in a list
Occurrences(recs, msg) == {i \in 1..Len(recs) : recs[i] = msg}

\* C9: the recommendations hold the message of each of the eight rules
\* exactly once if its condition holds and not at all otherwise, in the
\* order of the rules; the "well-optimized" message is there if and only if
\* the final score calculate_score computed is above 1.5 and no rule fired,
\* and then it is the only element
C9_Recommendations ==
    pc = "done" =>
        LET recs == result.recommendations
            fired == {k \in 1..Len(Rules) : Rules[k].cond}
            optimized == RLt(Dec(150), calc.final_score) /\ fired = {}
        IN /\ \A k \in 1..Len(Rules) :
                Cardinality(Occurrences(recs, Rules[k].msg)) =
                    IF k \in fired THEN 1 ELSE 0
           /\ \A j, k \in fired :
                j < k =>
                    \A a \in Occurrences(recs, Rules[j].msg),
                       b \in Occurrences(recs, Rules[k].msg) : a < b
           /\ (Occurrences(recs, RecOptimized) # {}) = optimized
           /\ optimized => recs = <<RecOptimized>>
           /\ Len(recs) = Cardinality(fired) + (IF optimized THEN 1 ELSE 0)

\* a score just above 1.5 (it is returned as 1.5) with no rule fired: the
\* "well-optimized" message alone
C9_Witness ==
    /\ pc = "done"
    /\ probs = NearOptimized
    /\ RLt(Dec(150), calc.final_score)
    /\ result.final_score = Dec(150)
    /\ result.recommendations = <<RecOptimized>>

---------------------------------------------------------------------------
(* the summary of analyze_posts *)

\* the arithmetic mean of the scores reported in a non-empty results list
ArithmeticMean(results) ==
    LET n == Len(results)
    IN RMul(SumScores(results, n), RInv(Rat(n, 1)))

\* the call completes: some dict is returned for the posts given
Completes == pc = "batch" => analyze_posts(posts, is_same_author) # {}

\* the three summary statistics of the empty batch are 0
EmptySummary ==
    /\ batch.average_score = Zero
    /\ batch.best_score = Zero
    /\ batch.worst_score = Zero

\* C7 as stated: for N >= 1 posts average_score equals the arithmetic mean
\* of the N scores reported in results; for no posts the call completes and
\* average_score, best_score and worst_score are 0
C7_AverageIsMean ==
    /\ Completes
    /\ pc = "done" =>
          IF Len(batch.results) >= 1
          THEN batch.average_score = ArithmeticMean(batch.results)
          ELSE EmptySummary

\* C7: for N >= 1 posts average_score is the arithmetic mean of the N scores
\* reported in results rounded to 4 decimals; for no posts the call completes
\* and average_score, best_score and worst_score are 0
C7_AverageIsRoundedMean ==
    /\ Completes
    /\ pc = "done" =>
          /\ Len(batch.results) = Len(posts)
          /\ batch.post_count = Len(posts)
          /\ IF Len(batch.results) >= 1
             THEN IsRounding(batch.average_score,
                             ArithmeticMean(batch.results))
             ELSE EmptySummary

\* three posts whose mean has more than 4 decimals
C7_Witness ==
    /\ pc = "done"
    /\ Len(batch.results) = 3
    /\ batch.average_score # ArithmeticMean(batch.results)

\* the advice tier of an average score
Tier(average) ==
    IF RLt(average, Dec(50)) THEN RecLowBatch
    ELSE IF RLt(average, Dec(100)) THEN RecModerateBatch
    ELSE RecGoodBatch

\* the recommendation of a batch whose scores have the given average
WarningOrTier(average) ==
    IF is_same_author /\ Len(posts) > 3 THEN RecSameAuthor(Len(posts))
    ELSE Tier(average)

\* C8 as stated: for every batch, the empty one (average 0) included, the
\* recommendation is the same-author warning if is_same_author and there are
\* more than 3 posts, and otherwise the tier of the average score
C8_WarningOrTierAlways ==
    pc = "done" =>
        batch.recommendation =
            WarningOrTier(IF Len(batch.results) = 0 THEN Zero
                          ELSE ArithmeticMean(batch.results))

\* C8: for every non-empty batch the recommendation is the same-author
\* warning if is_same_author and there are more than 3 posts, and otherwise
\* the tier of the mean of the reported scores; for the empty batch it is
\* the "No posts to analyze." text
C8_WarningOrTierUnlessEmpty ==
    pc = "done" =>
        batch.recommendation =
            IF Len(batch.results) = 0 THEN RecNoPosts
            ELSE WarningOrTier(ArithmeticMean(batch.results))

\* four posts of one author carry the warning, whatever their scores
C8_Witness ==
    /\ pc = "done"
    /\ is_same_author
    /\ Len(posts) = 4
    /\ batch.recommendation = RecSameAuthor(4)
    /\ batch.recommendation # Tier(ArithmeticMean(batch.results))

---------------------------------------------------------------------------
(* the probabilities analyze_text returns *)

\* C10: whatever patterns the text matches and whatever its word count, each
\* of the 17 probability fields analyze_text returns lies in [0.0, 1.0]
C10_ProbabilitiesInUnitInterval ==
    pc \in {"overrides", "score", "done"} =>
        /\ DOMAIN probs = ProbFields
        /\ Cardinality(ProbFields) = 17
        /\ \A f \in ProbFields : RLe(Zero, probs[f]) /\ RLe(probs[f], One)

\* a long text with a question, a controversy marker, every positive word
\* and every negative trigger: the largest estimates analyze_text makes
C10_Witness ==
    /\ pc = "overrides"
    /\ text.word_count > 50
    /\ probs.favorite = Dec(50)
    /\ probs.reply = Dec(40)
    /\ probs.dwell_time = Dec(40)
    /\ probs.not_interested = Dec(20)
    /\ probs.block = Dec(5)
    /\ probs.mute = Dec(10)

---------------------------------------------------------------------------
(* controversy markers and negative triggers together *)

\* the negative-trigger patterns a text matches
TriggersMatched(t) ==
    t.contains \cap {NEGATIVE_TRIGGERS[i] : i \in 1..Len(NEGATIVE_TRIGGERS)}

\* whether a text matches a controversy marker
IsControversial(t) ==
    t.contains \cap {CONTROVERSY_MARKERS[i] : i \in 1..Len(CONTROVERSY_MARKERS)} # {}

\* C11: for a text that matches a controversy marker and n >= 1 negative
\* triggers, analyze_text returns not_interested = 0.05 + min(0.15, n*0.05),
\* mute = 0.02 + min(0.08, n*0.03) and block = min(0.05, n*0.02); for the
\* text "hot take: this is terrible, fight me" (n = 2) that is
\* not_interested = 0.15 and mute = 0.08
C11_ControversyAndTriggers ==
    pc \in {"overrides", "score", "done"} =>
        LET n == Cardinality(TriggersMatched(text))
            times(k, hundredths) == Rat(k * hundredths, 100)
        IN /\ (IsControversial(text) /\ n >= 1) =>
                /\ probs.not_interested =
                        RMin(One, RAdd(Dec(5), RMin(Dec(15), times(n, 5))))
                /\ probs.mute =
                        RMin(One, RAdd(Dec(2), RMin(Dec(8), times(n, 3))))
                /\ probs.block = RMin(Dec(5), times(n, 2))
           /\ text = HotTake =>
                /\ IsControversial(text) /\ n = 2
                /\ probs.not_interested = Dec(15)
                /\ probs.mute = Dec(8)

\* the example text analyzed: both branches have fired
C11_Witness ==
    /\ pc = "overrides"
    /\ text = HotTake
    /\ probs.not_interested = Dec(15)
    /\ probs.mute = Dec(8)
    /\ probs.block = Dec(4)

---------------------------------------------------------------------------
(* no hidden state *)

\* a call given what an earlier call was given returns what it returned
SameAgain ==
    /\ (earlier.pc = "overrides" /\ pc = "overrides" /\ earlier.text = text) =>
            probs = earlier.probs /\ modifiers = earlier.modifiers
    /\ (/\ earlier.pc = "done" /\ earlier.result # NoResult
        /\ pc = "done" /\ result # NoResult
        /\ earlier.probs = probs /\ earlier.modifiers = modifiers) =>
            result = earlier.result
    /\ (/\ earlier.pc = "done" /\ earlier.batch # NoBatch
        /\ pc = "done" /\ batch # NoBatch
        /\ earlier.posts = posts
        /\ earlier.is_same_author = is_same_author) =>
            batch = earlier.batch

\* calculate_score assigns nothing to the objects it is given, and neither
\* does analyze_posts
ArgumentsKept ==
    /\ CalculateScore => probs' = probs /\ modifiers' = modifiers
    /\ AnalyzePosts => posts' = posts /\ is_same_author' = is_same_author
    /\ AnalyzeText => text' = text

---------------------------------------------------------------------------
(* the results of a batch, post by post *)

\* the diversity multiplier of the post at 0-based index i of one author:
\* 1.0 for the first post, max(0.10, 0.45^i) afterwards
PenaltyAtIndex(i) ==
    IF i = 0 THEN One ELSE RMax(Rat(10, 100), RPow(Rat(45, 100), i))

\* the first 50 characters of a post and the ellipsis of a longer one
PreviewOf(post) ==
    [chars |-> IF post.length > 50 THEN 50 ELSE post.length,
     ellipsis |-> post.length > 50]

\* C13: analyze_posts returns one result per post, in the order of the
\* posts, numbered 1..N; for posts of one author the reported
\* diversity_penalty of the post at 0-based index i is the multiplier of
\* position i+1 (1.0, then max(0.10, 0.45^i)); otherwise every reported
\* diversity_penalty is 1.0
C13_OneResultPerPost ==
    pc = "done" =>
        /\ Len(batch.results) = Len(posts)
        /\ \A k \in 1..Len(posts) :
            /\ batch.results[k].post_number = k
            /\ batch.results[k].text_preview = PreviewOf(posts[k])
            /\ batch.results[k].diversity_penalty =
                    IF is_same_author THEN PenaltyAtIndex(k - 1) ELSE One

\* four posts of one author: 1.0, 0.45, 0.2025 and the floor 0.1
C13_Witness ==
    /\ pc = "done"
    /\ is_same_author
    /\ Len(batch.results) = 4
    /\ batch.results[1].diversity_penalty = One
    /\ batch.results[2].diversity_penalty = Rat(45, 100)
    /\ batch.results[3].diversity_penalty = Rat(2025, 10000)
    /\ batch.results[4].diversity_penalty = Rat(10, 100)
    /\ batch.results[1].text_preview # batch.results[4].text_preview

---------------------------------------------------------------------------
(* the statement of the same-author warning *)

\* a fifth of the unpenalized score
OneFifth == Rat(20, 100)

\* C14: a post at position 4 or later has a diversity multiplier strictly
\* below 0.20, in fact the floor 0.10; a post at position 3 or earlier has
\* a diversity multiplier of at least 0.20
C14_WarningHolds ==
    pc = "done" =>
        /\ modifiers.post_position >= 4 =>
                /\ RLt(calc.diversity_multiplier, OneFifth)
                /\ calc.diversity_multiplier = Rat(10, 100)
                /\ result.diversity_multiplier = Rat(10, 100)
        /\ modifiers.post_position <= 3 =>
                /\ RLe(OneFifth, calc.diversity_multiplier)
                /\ RLe(OneFifth, result.diversity_multiplier)

\* the third post is still above a fifth, just: 0.2025
C14_Witness ==
    /\ pc = "done"
    /\ modifiers.post_position = 3
    /\ calc.diversity_multiplier = Rat(2025, 10000)
    /\ result.final_score # NoResult.final_score

---------------------------------------------------------------------------
(* scores of analyzed texts *)

\* the top boundary of the bands
TopBoundary == Rat(2, 1)

\* C15: whatever the text and whatever the position, the age and the
\* out-of-network flag given with it, the score calculated from the output
\* of analyze_text is below 2.0 and the interpretation is never
\* "VIRAL POTENTIAL"
C15_NeverViral ==
    pc = "done" =>
        /\ RLt(calc.final_score, TopBoundary)
        /\ RLt(result.final_score, TopBoundary)
        /\ result.interpretation #
                "VIRAL POTENTIAL: Content has maximum algorithmic support"

\* the largest estimates analyze_text makes (a long text with a question, a
\* call to action, four positive words, a controversy marker, a video and an
\* image, no negative trigger) at position 1, age 0, in network: the video
\* bonus applies and the score is 1.614 * 1.15 - 0.054 = 1.8021
C15_Witness ==
    /\ pc = "done"
    /\ calc.video_bonus_applied
    /\ calc.positive_score = Rat(18561, 10000)
    /\ calc.negative_score = Rat(54, 1000)
    /\ calc.final_score = Rat(18021, 10000)
    /\ result.final_score = Rat(18021, 10000)

=============================================================================
